---- MODULE Spec2Model ----
(***************************************************************************)
(* Model of yolo_listener.py: the MQTT-triggered single-frame detection    *)
(* cycle.  One thread runs client.loop_forever(); on_message calls         *)
(* start_yolo_detection synchronously, so the network loop handles no      *)
(* other message until the cycle has returned.  Times are in half-seconds. *)
(***************************************************************************)
EXTENDS Integers, Sequences, FiniteSets, Bags, TLC

\* ---- bounds of the model ------------------------------------------------
MaxMsgs == 2      \* messages the trigger source publishes in one behaviour
MaxTime == 60     \* the idle clock stops ticking past this time

\* ---- program constants ---------------------------------------------------
AI_TRIGGER_TOPIC == "/smart_sentinel/command/ai_trigger"
PERSON_CLASS_ID == "0"
WARMUP == 3       \* time.sleep(1.5)
SETTLE == 1       \* time.sleep(0.5)
RECENT == 60      \* time.time() - 30

VARIABLES
  pc,             \* position of the listener's only thread
  subscribed,     \* client.subscribe(AI_TRIGGER_TOPIC) has been called
  is_detecting,   \* the module-level flag
  inflight,       \* bag of published messages not yet handed to on_message
  sent,           \* number of messages published so far
  msg,            \* the message the last on_message call was given
  cycle,          \* number of calls of start_yolo_detection so far
  camOpen,        \* a cv2.VideoCapture handle on the camera is open
  tempExists,     \* TEMP_IMAGE_PATH exists on disk
  process,        \* the detector child: "None", "running", "exit0", "exit1"
  launched,       \* cycles in which subprocess.Popen started the detector
  dirs,           \* runs/detect/exp* directories, in creation order
  now,            \* time.time()
  latest_folder,  \* index in dirs of the folder the cycle analyses, 0 = None
  alerts,         \* the alerts printed so far
  outcome,        \* how the current (or last) cycle ended, "none" while open
  cleanups,       \* runs of the finally block in the current cycle
  located,        \* runs of get_latest_exp_folder in the current cycle
  statError,      \* get_latest_exp_folder printed its ERROR line in this cycle
  inspected       \* runs of check_for_person in the current cycle

vars == <<pc, subscribed, is_detecting, inflight, sent, msg, cycle, camOpen,
          tempExists, process, launched, dirs, now, latest_folder, alerts,
          outcome, cleanups, located, statError, inspected>>

\* ---- helpers --------------------------------------------------------------
CycleStages == {"capture_open", "capture_read", "capture_save", "launch",
                "wait", "locate", "inspect", "evidence", "cleanup", "release"}

InCycle == pc \in CycleStages

Topics == {AI_TRIGGER_TOPIC, "/other"}
Payloads == {"ACTIVATE", "activate", "INVALID_UTF8"}

NoMsg == [topic |-> "", payload |-> "", sentAt |-> ""]

\* what the listener is doing: idle, in the finally block, or elsewhere in a cycle
Phase == IF pc = "cleanup" THEN "cleanup"
         ELSE IF InCycle THEN "cycle" ELSE "idle"

\* the message was published while a cycle was running
Busy(m) == m.sentAt \in {"cycle", "cleanup"}

\* label files the detector may leave, as character sequences
WordChars == {"0", "1", "2", "5"}
LabelPerson == <<"0", " ", "5", "\n">>
LabelOther == <<"2", " ", "5", "\n">>
LabelEmpty == <<>>
\* class id 2, then a 0 as a later token of the line
LabelLater == <<"2", " ", "0", " ", "5", "\n">>

IsWord(c) == c \in WordChars

\* re.search(r'\b0\b', content)
SearchPerson(content) ==
  \E i \in 1..Len(content) :
    /\ content[i] = PERSON_CLASS_ID
    /\ (i = 1 \/ ~IsWord(content[i - 1]))
    /\ (i = Len(content) \/ ~IsWord(content[i + 1]))

\* a label file: name ends in .txt or not, content, readable or not
LabelFile(txt, content, readable) ==
  [txt |-> txt, content |-> content, readable |-> readable]

check_for_person(folder) ==
  IF ~folder.hasLabels THEN FALSE
  ELSE \E k \in 1..Len(folder.files) :
         LET f == folder.files[k] IN
           /\ f.txt
           /\ Len(f.content) # 0
           /\ f.readable
           /\ SearchPerson(f.content)

get_saved_evidence_path(folder) ==
  IF folder.crops = "jpg" THEN "crop" ELSE "None"

RECURSIVE MaxCtimeFrom(_, _, _)
\* max(list, key=os.path.getctime): the first element of greatest ctime
MaxCtimeFrom(ds, idxs, best) ==
  IF idxs = <<>> THEN best
  ELSE LET i == Head(idxs) IN
         MaxCtimeFrom(ds, Tail(idxs),
                      IF best = 0 \/ ds[i].ctime > ds[best].ctime
                      THEN i ELSE best)

RECURSIVE RecentOf(_, _, _)
RecentOf(ds, idxs, t) ==
  IF idxs = <<>> THEN <<>>
  ELSE LET i == Head(idxs) IN
         (IF ds[i].ctime > t - RECENT THEN <<i>> ELSE <<>>)
           \o RecentOf(ds, Tail(idxs), t)

Indices(ds) == [i \in 1..Len(ds) |-> i]

\* a locator that takes the first recent folder of the list, not the newest
get_latest_exp_folder_FirstRecent(ds, t) ==
  IF ds = <<>> THEN 0
  ELSE LET recent_files == RecentOf(ds, Indices(ds), t) IN
         IF recent_files = <<>>
         THEN MaxCtimeFrom(ds, Indices(ds), 0)
         ELSE Head(recent_files)

\* a locator without the fallback: None when no folder is recent
get_latest_exp_folder_NoFallback(ds, t) ==
  IF ds = <<>> THEN 0
  ELSE LET recent_files == RecentOf(ds, Indices(ds), t) IN
         IF recent_files = <<>>
         THEN 0
         ELSE MaxCtimeFrom(ds, recent_files, 0)

get_latest_exp_folder(ds, t) ==
  IF ds = <<>> THEN 0
  ELSE LET recent_files == RecentOf(ds, Indices(ds), t) IN
         IF recent_files = <<>>
         THEN MaxCtimeFrom(ds, Indices(ds), 0)
         ELSE MaxCtimeFrom(ds, recent_files, 0)

\* ---- initial state --------------------------------------------------------
Init ==
  /\ pc = "connecting"
  /\ subscribed = FALSE
  /\ is_detecting = FALSE
  /\ inflight = EmptyBag
  /\ sent = 0
  /\ msg = NoMsg
  /\ cycle = 0
  /\ camOpen = FALSE
  /\ tempExists = FALSE
  /\ process = "None"
  /\ launched = {}
  /\ dirs = <<>>
  /\ now = 0
  /\ latest_folder = 0
  /\ alerts = <<>>
  /\ outcome = "none"
  /\ cleanups = 0
  /\ located = 0
  /\ statError = FALSE
  /\ inspected = 0

\* ---- the broker and the trigger source -------------------------------------
\* on_connect: subscribe when rc = 0, otherwise sys.exit(1)
OnConnect(rc) ==
  /\ pc = "connecting"
  /\ IF rc = 0
     THEN pc' = "loop" /\ subscribed' = TRUE
     ELSE pc' = "exited" /\ subscribed' = FALSE
  /\ UNCHANGED <<is_detecting, inflight, sent, msg, cycle, camOpen,
                 tempExists, process, launched, dirs, now, latest_folder,
                 alerts, outcome, cleanups, located, statError, inspected>>

\* a message is published to the subscribed client; it waits in the socket
\* until loop_forever reads it.  sentAt records what the listener did then.
Publish(topic, payload) ==
  /\ subscribed
  /\ pc # "exited"
  /\ sent < MaxMsgs
  /\ inflight' = inflight (+)
                   SetToBag({[topic |-> topic, payload |-> payload,
                              sentAt |-> Phase]})
  /\ sent' = sent + 1
  /\ UNCHANGED <<pc, subscribed, is_detecting, msg, cycle, camOpen,
                 tempExists, process, launched, dirs, now, latest_folder,
                 alerts, outcome, cleanups, located, statError, inspected>>

\* time passes
Tick ==
  /\ pc # "exited"
  /\ now + (RECENT \div 2) <= MaxTime
  /\ now' = now + (RECENT \div 2)
  /\ UNCHANGED <<pc, subscribed, is_detecting, inflight, sent, msg, cycle,
                 camOpen, tempExists, process, launched, dirs,
                 latest_folder, alerts, outcome, cleanups, located, statError, inspected>>

\* ---- on_message ------------------------------------------------------------
\* on_message without line 156: the flag is not set before the cycle starts
OnMessageFlagNotSet(m) ==
  /\ pc = "loop"
  /\ BagIn(m, inflight)
  /\ inflight' = inflight (-) SetToBag({m})
  /\ msg' = m
  /\ IF m.payload = "INVALID_UTF8"
     THEN /\ pc' = "exited"
          /\ UNCHANGED <<cycle, outcome, cleanups, located, statError, inspected,
                         latest_folder, process>>
     ELSE IF m.topic = AI_TRIGGER_TOPIC /\ m.payload = "ACTIVATE"
               /\ ~is_detecting
     THEN /\ pc' = "capture_open"
          /\ cycle' = cycle + 1
          /\ outcome' = "none"
          /\ cleanups' = 0
          /\ located' = 0
          /\ statError' = FALSE
          /\ inspected' = 0
          /\ latest_folder' = 0
          /\ process' = "None"
     ELSE UNCHANGED <<pc, cycle, outcome, cleanups, located, statError, inspected,
                      latest_folder, process>>
  /\ UNCHANGED <<is_detecting, subscribed, sent, camOpen, tempExists,
                 launched, dirs, now, alerts>>

\* loop_forever reads one message and calls on_message with it; the call
\* returns at once unless it starts a cycle.
OnMessage(m) ==
  /\ pc = "loop"
  /\ BagIn(m, inflight)
  /\ inflight' = inflight (-) SetToBag({m})
  /\ msg' = m
  /\ IF m.payload = "INVALID_UTF8"
     THEN \* msg.payload.decode() raises; loop_forever re-raises, main exits
          /\ pc' = "exited"
          /\ UNCHANGED <<is_detecting, cycle, outcome, cleanups, located, statError,
                         inspected, latest_folder, process>>
     ELSE IF m.topic = AI_TRIGGER_TOPIC /\ m.payload = "ACTIVATE"
               /\ ~is_detecting
     THEN /\ is_detecting' = TRUE
          /\ pc' = "capture_open"
          /\ cycle' = cycle + 1
          /\ outcome' = "none"
          /\ cleanups' = 0
          /\ located' = 0
          /\ statError' = FALSE
          /\ inspected' = 0
          /\ latest_folder' = 0
          /\ process' = "None"
     ELSE \* redundant trigger, other topic or other payload: only logged
          /\ UNCHANGED <<pc, is_detecting, cycle, outcome, cleanups, located, statError,
                         inspected, latest_folder, process>>
  /\ UNCHANGED <<subscribed, sent, camOpen, tempExists, launched, dirs, now,
                 alerts>>

\* ---- capture_single_frame --------------------------------------------------
\* the capture failure branch without its return: falls through to Popen
CaptureFailedNoReturn ==
  /\ is_detecting' = FALSE
  /\ outcome' = "CaptureFailed"
  /\ pc' = "launch"

\* start_yolo_detection when capture_single_frame returned False
CaptureFailed ==
  /\ is_detecting' = FALSE
  /\ outcome' = "CaptureFailed"
  /\ pc' = "loop"

\* cv2.VideoCapture(int(index)) and cap.isOpened()
CaptureOpen(r) ==
  /\ pc = "capture_open"
  /\ IF r = "opened"
     THEN /\ camOpen' = TRUE
          /\ pc' = "capture_read"
          /\ UNCHANGED <<is_detecting, outcome>>
     ELSE \* not opened, or VideoCapture raised
          /\ CaptureFailed
          /\ UNCHANGED camOpen
  /\ UNCHANGED <<subscribed, inflight, sent, msg, cycle, tempExists, process,
                 launched, dirs, now, latest_folder, alerts, cleanups,
                 located, statError, inspected>>

\* time.sleep(1.5); cap.read(); cap.release()
CaptureRead(r) ==
  /\ pc = "capture_read"
  /\ now' = now + WARMUP
  /\ IF r = "frame"
     THEN /\ camOpen' = FALSE
          /\ pc' = "capture_save"
          /\ UNCHANGED <<is_detecting, outcome>>
     ELSE IF r = "noframe"
     THEN /\ camOpen' = FALSE
          /\ CaptureFailed
     ELSE \* cap.read() raised: cap.release() is skipped
          /\ UNCHANGED camOpen
          /\ CaptureFailed
  /\ UNCHANGED <<subscribed, inflight, sent, msg, cycle, tempExists, process,
                 launched, dirs, latest_folder, alerts, cleanups, located, statError,
                 inspected>>

\* cv2.imwrite(path, frame); its return value is not looked at
CaptureSave(r) ==
  /\ pc = "capture_save"
  /\ IF r = "written"
     THEN tempExists' = TRUE /\ pc' = "launch"
                             /\ UNCHANGED <<is_detecting, outcome>>
     ELSE IF r = "notwritten"
     THEN UNCHANGED <<tempExists, is_detecting, outcome>> /\ pc' = "launch"
     ELSE \* cv2.imwrite raised before it created the file
          CaptureFailed /\ UNCHANGED tempExists
  /\ UNCHANGED <<subscribed, inflight, sent, msg, cycle, camOpen, process,
                 launched, dirs, now, latest_folder, alerts, cleanups,
                 located, statError, inspected>>

\* the VideoCapture object left open by a raise is finalised by the
\* interpreter some time after capture_single_frame has returned
Finalize ==
  /\ camOpen
  /\ pc # "capture_read"
  /\ camOpen' = FALSE
  /\ UNCHANGED <<pc, subscribed, is_detecting, inflight, sent, msg, cycle,
                 tempExists, process, launched, dirs, now, latest_folder,
                 alerts, outcome, cleanups, located, statError, inspected>>

\* ---- start_yolo_detection, the try block -----------------------------------
\* try without finally: the function returns straight away
AfterTryNoFinally == "loop"

\* where the except handlers and every return inside try lead: finally
AfterTry == "cleanup"

\* subprocess.Popen(YOLO_COMMAND, shell=False)
Launch(ok) ==
  /\ pc = "launch"
  /\ IF ok
     THEN /\ process' = "running"
          /\ launched' = launched \cup {cycle}
          /\ pc' = "wait"
          /\ UNCHANGED outcome
     ELSE \* Popen raised: except Exception
          /\ outcome' = "InvocationFailed"
          /\ pc' = AfterTry
          /\ UNCHANGED <<process, launched>>
  /\ UNCHANGED <<subscribed, is_detecting, inflight, sent, msg, cycle,
                 camOpen, tempExists, dirs, now, latest_folder, alerts,
                 cleanups, located, statError, inspected>>

\* what detect.py may leave behind
NoOutput == [made |-> FALSE, hasLabels |-> FALSE, files |-> <<>>,
             crops |-> "missing"]

DirOutput(hasLabels, files, crops) ==
  [made |-> TRUE, hasLabels |-> hasLabels, files |-> files, crops |-> crops]

DetectorOutputs ==
  { NoOutput,
    DirOutput(FALSE, <<>>, "missing"),
    DirOutput(TRUE, <<LabelFile(TRUE, LabelEmpty, TRUE)>>, "missing"),
    DirOutput(TRUE, <<LabelFile(TRUE, LabelOther, TRUE)>>, "missing"),
    DirOutput(TRUE, <<LabelFile(TRUE, LabelLater, TRUE)>>, "missing"),
    DirOutput(TRUE, <<LabelFile(TRUE, LabelPerson, TRUE)>>, "missing"),
    DirOutput(TRUE, <<LabelFile(TRUE, LabelPerson, TRUE)>>, "empty"),
    DirOutput(TRUE, <<LabelFile(TRUE, LabelPerson, TRUE)>>, "jpg") }

\* the child process runs detect.py and exits with a status
DetectorExit(out, status) ==
  /\ process = "running"
  /\ process' = IF status = 0 THEN "exit0" ELSE "exit1"
  /\ dirs' = IF out.made
             THEN Append(dirs, [owner |-> cycle, ctime |-> now,
                                hasLabels |-> out.hasLabels,
                                files |-> out.files, crops |-> out.crops])
             ELSE dirs
  /\ UNCHANGED <<pc, subscribed, is_detecting, inflight, sent, msg, cycle,
                 camOpen, tempExists, launched, now, latest_folder, alerts,
                 outcome, cleanups, located, statError, inspected>>

\* process.wait() returns (its return code is dropped); time.sleep(0.5)
Wait ==
  /\ pc = "wait"
  /\ process \in {"exit0", "exit1"}
  /\ now' = now + SETTLE
  /\ pc' = "locate"
  /\ UNCHANGED <<subscribed, is_detecting, inflight, sent, msg, cycle,
                 camOpen, tempExists, process, launched, dirs,
                 latest_folder, alerts, outcome, cleanups, located, statError, inspected>>

\* latest_folder = get_latest_exp_folder(); statFails: os.path.getctime raised
Locate(statFails) ==
  /\ pc = "locate"
  /\ located' = located + 1
  /\ statError' = (statFails /\ dirs # <<>>)
  /\ LET f == IF statFails /\ dirs # <<>> THEN 0
              ELSE get_latest_exp_folder(dirs, now) IN
       /\ latest_folder' = f
       /\ IF f = 0
          THEN outcome' = "OutputNotFound" /\ pc' = AfterTry
          ELSE pc' = "inspect" /\ UNCHANGED outcome
  /\ UNCHANGED <<subscribed, is_detecting, inflight, sent, msg, cycle,
                 camOpen, tempExists, process, launched, dirs, now, alerts,
                 cleanups, inspected>>

\* check_for_person(latest_folder); listFails: os.listdir raised
Inspect(listFails) ==
  /\ pc = "inspect"
  /\ inspected' = inspected + 1
  /\ IF listFails /\ dirs[latest_folder].hasLabels
     THEN outcome' = "Error" /\ pc' = AfterTry
     ELSE IF check_for_person(dirs[latest_folder])
     THEN pc' = "evidence" /\ UNCHANGED outcome
     ELSE outcome' = "NoDetection" /\ pc' = AfterTry
  /\ UNCHANGED <<subscribed, is_detecting, inflight, sent, msg, cycle,
                 camOpen, tempExists, process, launched, dirs, now,
                 latest_folder, alerts, cleanups, located, statError>>

\* get_saved_evidence_path(latest_folder) and the alert prints
Alert(statFails) ==
  /\ pc = "evidence"
  /\ IF statFails /\ dirs[latest_folder].crops = "jpg"
     THEN \* os.path.getctime raised in max(): except Exception
          outcome' = "Error" /\ UNCHANGED alerts
     ELSE /\ outcome' = "PersonDetected"
          /\ alerts' = Append(alerts,
                 [cycle |-> cycle, folder |-> latest_folder,
                  evidence |-> get_saved_evidence_path(dirs[latest_folder])])
  /\ pc' = AfterTry
  /\ UNCHANGED <<subscribed, is_detecting, inflight, sent, msg, cycle,
                 camOpen, tempExists, process, launched, dirs, now,
                 latest_folder, cleanups, located, statError, inspected>>

\* ---- start_yolo_detection, the finally block -------------------------------
\* a finally block that forgets os.remove
CleanupNoRemove(removed) ==
  /\ pc = "cleanup"
  /\ cleanups' = cleanups + 1
  /\ pc' = "release"
  /\ UNCHANGED <<tempExists, subscribed, is_detecting, inflight, sent, msg,
                 cycle, camOpen, process, launched, dirs, now, latest_folder,
                 alerts, outcome, located, statError, inspected>>

\* if os.path.exists(TEMP_IMAGE_PATH): os.remove(TEMP_IMAGE_PATH)
\* removed = FALSE: os.remove raised; the exception leaves the function,
\* on_message and loop_forever, and main calls sys.exit(1)
Cleanup(removed) ==
  /\ pc = "cleanup"
  /\ cleanups' = cleanups + 1
  /\ IF tempExists
     THEN IF removed
          THEN tempExists' = FALSE /\ pc' = "release"
          ELSE UNCHANGED tempExists /\ pc' = "exited"
     ELSE UNCHANGED tempExists /\ pc' = "release"
  /\ UNCHANGED <<subscribed, is_detecting, inflight, sent, msg, cycle,
                 camOpen, process, launched, dirs, now, latest_folder,
                 alerts, outcome, located, statError, inspected>>

\* is_detecting = False; the function and on_message return
Release ==
  /\ pc = "release"
  /\ is_detecting' = FALSE
  /\ pc' = "loop"
  /\ UNCHANGED <<subscribed, inflight, sent, msg, cycle, camOpen, tempExists,
                 process, launched, dirs, now, latest_folder, alerts,
                 outcome, cleanups, located, statError, inspected>>

\* ---- specification -----------------------------------------------------------
CycleStep ==
  \/ \E r \in {"opened", "closed", "raise"} : CaptureOpen(r)
  \/ \E r \in {"frame", "noframe", "raise"} : CaptureRead(r)
  \/ \E r \in {"written", "notwritten", "raise"} : CaptureSave(r)
  \/ \E ok \in BOOLEAN : Launch(ok)
  \/ Wait
  \/ \E statFails \in BOOLEAN : Locate(statFails)
  \/ \E listFails \in BOOLEAN : Inspect(listFails)
  \/ \E statFails \in BOOLEAN : Alert(statFails)
  \/ \E removed \in BOOLEAN : Cleanup(removed)
  \/ Release

Detector == \E out \in DetectorOutputs, status \in {0, 1} : DetectorExit(out, status)

Deliver == \E m \in BagToSet(inflight) : OnMessage(m)

Environment ==
  \/ \E rc \in {0, 5} : OnConnect(rc)
  \/ \E t \in Topics, p \in Payloads : Publish(t, p)
  \/ Tick
  \/ Finalize

Next == CycleStep \/ Detector \/ Deliver \/ Environment

Spec == Init /\ [][Next]_vars

\* the cycle's steps, the child process and the network loop keep running
LiveSpec == Spec /\ WF_vars(CycleStep) /\ WF_vars(Detector) /\ WF_vars(Deliver)

\* ---- the output locator on its own -------------------------------------------
\* The cycle is about to call get_latest_exp_folder with any exp* folders on
\* disk, left by earlier runs, in whatever order glob lists them.
MaxDirs == 3
CtimeSamples == {10, 40, 70, 90}
LocatorTimes == {100, 200}

StaleDir(c) ==
  [owner |-> 0, ctime |-> c, hasLabels |-> TRUE,
   files |-> <<LabelFile(TRUE, LabelOther, TRUE)>>, crops |-> "missing"]

CandidateLists ==
  UNION {[1..n -> {StaleDir(c) : c \in CtimeSamples}] : n \in 0..MaxDirs}

LocatorInit ==
  /\ pc = "locate"
  /\ subscribed = TRUE
  /\ is_detecting = TRUE
  /\ inflight = EmptyBag
  /\ sent = 1
  /\ msg = [topic |-> AI_TRIGGER_TOPIC, payload |-> "ACTIVATE", sentAt |-> "idle"]
  /\ cycle = 1
  /\ camOpen = FALSE
  /\ tempExists = TRUE
  /\ process = "exit0"
  /\ launched = {1}
  /\ dirs \in CandidateLists
  /\ now \in LocatorTimes
  /\ latest_folder = 0
  /\ alerts = <<>>
  /\ outcome = "none"
  /\ cleanups = 0
  /\ located = 0
  /\ statError = FALSE
  /\ inspected = 0

LocatorNext == \E statFails \in BOOLEAN : Locate(statFails)

LocatorSpec == LocatorInit /\ [][LocatorNext]_vars

\* ---- properties --------------------------------------------------------------
AlertsOf(c) == {i \in 1..Len(alerts) : alerts[i].cycle = c}

IsTrigger(m) == m.topic = AI_TRIGGER_TOPIC /\ m.payload = "ACTIVATE"

\* C1: at most one cycle is active.  is_detecting is true for as long as a
\* cycle runs, and start_yolo_detection is entered only by a step that finds
\* is_detecting false and sets it, whatever triggers are waiting.
C1_SingleFlight ==
  /\ [](InCycle => is_detecting)
  /\ [][(~InCycle /\ InCycle') => (~is_detecting /\ is_detecting')]_vars

\* a second cycle runs, started by a trigger that was published during the first
C1_Witness == cycle = 2 /\ InCycle /\ Busy(msg) /\ is_detecting

\* C2: a trigger published while a cycle is active never starts a cycle:
\* every running cycle was started by a trigger published while no cycle ran.
C2_BusyTriggerDiscarded == InCycle => ~Busy(msg)

\* C3: once a cycle has failed at capture, the detector has not been launched
\* in it, it has raised no alert, the temporary image is absent and the
\* listener is idle; the failing step itself goes back to the idle loop.
C3_CaptureFailureStopsCycle ==
  /\ [](outcome = "CaptureFailed" =>
          /\ ~InCycle
          /\ ~is_detecting
          /\ cycle \notin launched
          /\ AlertsOf(cycle) = {}
          /\ ~tempExists)
  /\ [][(outcome # "CaptureFailed" /\ outcome' = "CaptureFailed") =>
          (pc' = "loop" /\ process' = "None")]_vars

\* a cycle failed at capture while an earlier cycle's output is on disk
C3_Witness == outcome = "CaptureFailed" /\ pc = "loop" /\ dirs # <<>>

\* C4: whenever the listener is idle (not in a cycle, is_detecting false) the
\* temporary image is absent.
C4_TempAbsentWhenIdle == (~InCycle /\ ~is_detecting) => ~tempExists

\* a cycle whose capture wrote the image is in its last step, image removed
C4_Witness == pc = "release" /\ cycle \in launched /\ ~tempExists

\* C5: when the detector could not be launched or exited with a non-zero
\* status, the cycle runs neither get_latest_exp_folder nor check_for_person
\* and raises no alert.
C5_FailedInvocationAborts ==
  (process = "exit1" \/ outcome = "InvocationFailed") =>
    (located = 0 /\ inspected = 0 /\ AlertsOf(cycle) = {})

\* C6: the folder a cycle analyses was created by that cycle's own detector run.
C6_InspectsOwnOutput ==
  latest_folder # 0 => dirs[latest_folder].owner = cycle

\* C7: every accepted trigger is eventually followed by the idle state with
\* is_detecting false.
C7_AlwaysBackToIdle == is_detecting ~> (pc = "loop" /\ ~is_detecting)

C9_FlagHeldThroughCleanup ==
  /\ pc \in {"launch", "wait", "locate", "inspect", "evidence", "cleanup",
             "release"} => is_detecting
  /\ InCycle => msg.sentAt # "cleanup"

\* C10: no error of a cycle leaves start_yolo_detection: the listener never
\* terminates in the middle of a cycle, with is_detecting still true.
C10_NoErrorEscapes == pc = "exited" => ~is_detecting

\* the class id is the first token of some line of the content
FirstTokenPerson(content) ==
  \E i \in 1..Len(content) :
    /\ content[i] = PERSON_CLASS_ID
    /\ (i = 1 \/ content[i - 1] = "\n")
    /\ (i = Len(content) \/ ~IsWord(content[i + 1]))

\* some non-empty readable .txt label file of the folder has such a line
HasFirstTokenPerson(folder) ==
  /\ folder.hasLabels
  /\ \E k \in 1..Len(folder.files) :
       LET f == folder.files[k] IN
         f.txt /\ Len(f.content) # 0 /\ f.readable /\ FirstTokenPerson(f.content)

\* C11: check_for_person answers true exactly when some non-empty readable
\* .txt label file has a line whose first token is the class id 0: a cycle
\* goes on to the alert only for such a folder, and ends in no detection
\* only for a folder without one.
C11_FirstTokenOnly ==
  /\ pc = "evidence" => HasFirstTokenPerson(dirs[latest_folder])
  /\ outcome = "NoDetection" => ~HasFirstTokenPerson(dirs[latest_folder])

IsRecent(d, t) == d.ctime > t - RECENT

C18_NoneOnlyWithoutCandidates ==
  (located = 1 /\ dirs # <<>>) => latest_folder # 0

\* C18 as amended: the locator returns None exactly when no candidate exists
\* or reading a candidate's creation time raised; otherwise it returns one of
\* the candidates, however old they are.
C18_NoneOnlyWithoutCandidatesOrStatError ==
  located = 1 =>
    /\ (latest_folder = 0) <=> (dirs = <<>> \/ statError)
    /\ latest_folder \in 0..Len(dirs)

\* every candidate is older than 30 seconds and one of them is returned
C18_Witness ==
  /\ located = 1
  /\ dirs # <<>>
  /\ ~statError
  /\ \A i \in 1..Len(dirs) : ~IsRecent(dirs[i], now)
  /\ latest_folder # 0

\* the folder the running (or last) cycle analysed
Analysed == dirs[latest_folder]

\* the analysed folder was made by this cycle's own detector run
OwnFolder == latest_folder # 0 /\ Analysed.owner = cycle

\* an exception left start_yolo_detection and the listener terminated
Crashed == pc = "exited" /\ is_detecting

\* C13: a cycle raises at most one alert, only after check_for_person
\* answered true for the folder it located, and never when it ended in no
\* detection, capture failure, invocation failure (launch error or non-zero
\* exit) or output not found.
C13_AlertOnlyOnDetection ==
  /\ \A c \in 1..cycle : Cardinality(AlertsOf(c)) <= 1
  /\ AlertsOf(cycle) # {} =>
       (inspected = 1 /\ latest_folder # 0 /\ check_for_person(Analysed))
  /\ (\/ outcome \in {"NoDetection", "CaptureFailed", "InvocationFailed",
                      "OutputNotFound"}
      \/ process = "exit1") => AlertsOf(cycle) = {}

\* capture succeeded, the detector exited zero and left a labels file with
\* class id 0 and a crop, and the cycle read them without error
ScenarioA ==
  /\ cycle \in launched
  /\ process = "exit0"
  /\ OwnFolder
  /\ HasFirstTokenPerson(Analysed)
  /\ Analysed.crops = "jpg"
  /\ outcome # "Error"

\* C14: in scenario A the alert, with the crop path, is raised exactly once and
\* before the finally block; the image is removed before the flag is released;
\* and both happen: the cycle does not end any other way.
C14_AlertThenCleanupThenIdle ==
  ScenarioA =>
    /\ pc \in {"inspect", "evidence"} =>
         (AlertsOf(cycle) = {} /\ cleanups = 0 /\ is_detecting)
    /\ pc \in {"cleanup", "release", "loop", "exited"} =>
         /\ Cardinality(AlertsOf(cycle)) = 1
         /\ \A i \in AlertsOf(cycle) :
              alerts[i].evidence = "crop" /\ alerts[i].folder = latest_folder
    /\ pc = "cleanup" => is_detecting
    /\ pc = "release" => (~tempExists /\ is_detecting)
    /\ pc = "loop" => (~tempExists /\ ~is_detecting)
    /\ ~Crashed

\* the detector exited zero and its folder has no labels directory or only
\* zero-byte label files
ScenarioC ==
  /\ process = "exit0"
  /\ OwnFolder
  /\ \/ ~Analysed.hasLabels
     \/ \A k \in 1..Len(Analysed.files) : Len(Analysed.files[k].content) = 0

\* C15: in scenario C check_for_person answers false, no alert is raised, and
\* the cycle runs the finally block and returns to idle.
C15_EmptyLabelsSilent ==
  ScenarioC =>
    /\ ~check_for_person(Analysed)
    /\ pc # "evidence"
    /\ AlertsOf(cycle) = {}
    /\ pc = "loop" => (cleanups = 1 /\ ~tempExists /\ ~is_detecting)
    /\ ~Crashed

\* C16: when get_latest_exp_folder returned None the cycle runs neither
\* check_for_person nor the evidence lookup, raises no alert, removes the
\* image and returns to idle.
C16_NoOutputIsNoDetection ==
  (located = 1 /\ latest_folder = 0) =>
    /\ inspected = 0
    /\ pc \notin {"inspect", "evidence"}
    /\ AlertsOf(cycle) = {}
    /\ outcome = "OutputNotFound"
    /\ pc = "loop" => (cleanups = 1 /\ ~tempExists /\ ~is_detecting)
    /\ ~Crashed

\* C17: the camera handle is open only inside capture_single_frame, between
\* the open and the read.
C17_CameraReleased == camOpen => pc = "capture_read"

\* check_for_person answered true and the folder has no crop
PositiveWithoutCrop ==
  /\ inspected = 1
  /\ latest_folder # 0
  /\ check_for_person(Analysed)
  /\ Analysed.crops # "jpg"
  /\ outcome # "Error"

\* C19: a positive detection without a crop still raises the alert, with no
\* evidence path, and the cycle then runs the finally block and returns to idle.
C19_AlertWithoutEvidence ==
  PositiveWithoutCrop =>
    /\ pc \in {"cleanup", "release", "loop", "exited"} =>
         /\ outcome = "PersonDetected"
         /\ Cardinality(AlertsOf(cycle)) = 1
         /\ \A i \in AlertsOf(cycle) : alerts[i].evidence = "None"
    /\ pc = "loop" => (cleanups = 1 /\ ~tempExists /\ ~is_detecting)
    /\ ~Crashed

\* on_message is called with a message that is not the trigger
IgnoredDelivery ==
  /\ pc = "loop"
  /\ sent' = sent
  /\ inflight' # inflight
  /\ ~IsTrigger(msg')

\* C20: a delivered message that is not ACTIVATE on the trigger topic changes
\* nothing but the socket: no cycle, same flag, no capture, no detector, no alert.
C20_OtherMessagesIgnored ==
  [][IgnoredDelivery =>
       UNCHANGED <<pc, is_detecting, cycle, camOpen, tempExists, process,
                   launched, dirs, latest_folder, alerts, outcome>>]_vars
====
